---- MODULE Spec2Model ----
(***************************************************************************)
(* A model of train_qasc.py: the QASC dataset adapter (QASCDataset), the   *)
(* batch loaders (configure_dataloaders), the train/eval loop              *)
(* (train_or_eval_model) and the epoch driver (__main__).                  *)
(*                                                                         *)
(* Two specifications share the module.  SpecData applies the dataset      *)
(* adapter, the evaluation loader and the label reshape to bounded input   *)
(* files.  Spec runs the whole script, statement by statement, from the    *)
(* parsed command line to the separator line.                              *)
(*                                                                         *)
(* Strings the script formats are kept as token sequences: the text        *)
(* "{} {}".format(q, c) is <<q, c>>, "{} \\n {}" is <<q, "\\n", c>> and    *)
(* "{} {} {}".format(q, sep, c) is <<q, sep, c>>.  Accuracies are kept in   *)
(* units of 1e-4, which is what round(., 4) leaves of them.                *)
(***************************************************************************)
EXTENDS Integers, Sequences, FiniteSets, Bags, TLC

VARIABLES
    \* ---- SpecData: one file through QASCDataset / DataLoader / reshape
    dIn,        \* [file, input_format, eval_bs]: the inputs under test
    dStage,     \* "new" | "built" | "shuffled" | "loaded" | "evaluated"
    dPlain,     \* QASCDataset(f, sep, input_format, False)
    dShuf,      \* QASCDataset(f, sep, input_format, True)
    dOrder,     \* the order random.shuffle left the lines in
    dBatches,   \* the batches of DataLoader(dPlain, shuffle=False, eval_bs)
    dInst,      \* reshape(-1, num_choices).argmax(1) of the batches' labels
    \* ---- Spec: the script
    pc,         \* position in __main__ / train_or_eval_model
    args,       \* the parsed command line
    files,      \* [train, val, test]: the three jsonl files on disk
    e,          \* the epoch loop variable
    dev_best_acc,
    split,      \* the split train_or_eval_model is running
    loaders,    \* [Train, Val, Test] as configure_dataloaders returned them
    bi,         \* batches of the running split already completed
    accum,      \* [preds, preds_cls, labels_cls] of the running call
    model,      \* [built, training, theta]: the Model and its parameters
    optim,      \* [steps, zero_grads, backwards]: optimizer/autograd calls
    callStart,  \* model and optim when the running call began
    metrics,    \* [val_acc, val_ins_acc, test_preds, pred_ins_acc, computed]
    saved,      \* epochs (e+1) at which save_model was called, in order
    out,        \* [dirs, args_txt, results_txt, preds]: the output files
    trace       \* the phases the run went through, in order

dataVars == <<dIn, dStage, dPlain, dShuf, dOrder, dBatches, dInst>>
mainVars == <<pc, args, files, e, dev_best_acc, split, loaders, bi,
              accum, model, optim, callStart, metrics, saved, out, trace>>
vars == <<dataVars, mainVars>>

(***************************************************************************)
(* Bounds of the model.                                                    *)
(***************************************************************************)
MaxRecords == 2        \* lines of a file in SpecData
MaxSplitRecords == 2   \* lines of a split's file in Spec
MaxEpochs == 2         \* --epochs

(***************************************************************************)
(* Program constants.                                                      *)
(***************************************************************************)
num_choices == 8
answers == <<"A", "B", "C", "D", "E", "F", "G", "H">>
sep_token == "</s>"
NoKey == "absent"      \* the record has no "answerKey" member

(***************************************************************************)
(* Generic helpers.                                                        *)
(***************************************************************************)
Range(s) == {s[i] : i \in 1..Len(s)}

RECURSIVE Flatten(_)
Flatten(ss) == IF ss = <<>> THEN <<>> ELSE Head(ss) \o Flatten(Tail(ss))

Min(a, b) == IF a < b THEN a ELSE b

Perms(n) == {p \in [1..n -> 1..n] : \A i, j \in 1..n : p[i] = p[j] => i = j}

(***************************************************************************)
(* Input records.  A line of a jsonl file is                               *)
(*   [stem, choices, answerKey]                                            *)
(* with choices the texts of question.choices in order.  The stem is the   *)
(* line number in the file, so that every text tells its record.           *)
(***************************************************************************)
ChoiceCounts == {1, 3, 4, 8}
AnswerKeys == {NoKey, "A", "C", "H", "I"}

Rec(id, n, key) ==
    [stem |-> id, choices |-> [k \in 1..n |-> k], answerKey |-> key]

FilesOfLen(n) ==
    {[i \in 1..n |-> Rec(i, ns[i], ks[i])] :
        ns \in [1..n -> ChoiceCounts], ks \in [1..n -> AnswerKeys]}

DataFiles == UNION {FilesOfLen(n) : n \in 0..MaxRecords}

InputFormats == {"0", "1", "2"}

(***************************************************************************)
(* QASCDataset.__init__                                                    *)
(***************************************************************************)
\* a lookup that falls back to position 0 when l is absent
ListIndexOrFirst(list, l) ==
    IF \E i \in 1..Len(list) : list[i] = l
    THEN [raised |-> FALSE,
          value  |-> (CHOOSE i \in 1..Len(list) :
                        list[i] = l /\ \A j \in 1..(i - 1) : list[j] # l) - 1]
    ELSE [raised |-> FALSE, value |-> 0]

\* list.index: the 0-based position of the first l, or a ValueError
ListIndex(list, l) ==
    IF \E i \in 1..Len(list) : list[i] = l
    THEN [raised |-> FALSE,
          value  |-> (CHOOSE i \in 1..Len(list) :
                        list[i] = l /\ \A j \in 1..(i - 1) : list[j] # l) - 1]
    ELSE [raised |-> TRUE]

\* the if/elif chain over input_format for one line's choices
FormatChoices(input_format, question, choices) ==
    IF input_format = "0"
    THEN [k \in 1..Len(choices) |-> <<question, choices[k]>>]
    ELSE IF input_format = "1"
    THEN [k \in 1..Len(choices) |-> <<question, "\\n", choices[k]>>]
    ELSE IF input_format = "2"
    THEN [k \in 1..Len(choices) |-> <<question, sep_token, choices[k]>>]
    ELSE <<>>

\* l = instance["answerKey"] if "answerKey" in instance else "A"
AnswerLetter(instance) ==
    IF instance.answerKey # NoKey THEN instance.answerKey ELSE "A"

\* y[answers.index(l) - 1] = 1, Python's y[-1] being the last slot
OneHotShifted(idx) ==
    [j \in 1..Len(answers) |->
        IF j = (IF idx = 0 THEN Len(answers) ELSE idx) THEN 1 ELSE 0]

\* y = [0]*8; y[answers.index(l)] = 1
OneHot(idx) == [j \in 1..Len(answers) |-> IF j = idx + 1 THEN 1 ELSE 0]

\* the for loop over the lines x, from line i on
RECURSIVE DatasetLoop(_, _, _, _, _)
DatasetLoop(x, i, input_format, content, labels) ==
    IF i > Len(x)
    THEN [raised |-> FALSE, content |-> content, labels |-> labels]
    ELSE LET instance == x[i]
             idx == ListIndex(answers, AnswerLetter(instance))
         IN  IF idx.raised
             THEN [raised |-> TRUE]
             ELSE DatasetLoop(x, i + 1, input_format,
                     content \o FormatChoices(input_format, instance.stem,
                                              instance.choices),
                     labels \o OneHot(idx.value))

\* QASCDataset(f, sep_token, input_format, shuffle), x the lines after the
\* optional random.shuffle
QASCDataset(x, input_format) == DatasetLoop(x, 1, input_format, <<>>, <<>>)

\* random.shuffle(x) with the permutation p
Shuffled(x, p) == [i \in 1..Len(x) |-> x[p[i]]]

DatasetLen(ds) == Len(ds.content)

\* __getitem__ (index 0-based)
GetItem(ds, index) == <<ds.content[index + 1], ds.labels[index + 1]>>

\* collate_fn: the columns of the DataFrame of (text, label) rows
Collate(data) ==
    [content |-> [i \in 1..Len(data) |-> data[i][1]],
     labels  |-> [i \in 1..Len(data) |-> data[i][2]]]

\* DataLoader(dataset, batch_size, collate_fn) iterated in the index order
\* `order` (0-based indices): shuffle=False is the identity order
BatchesInOrder(ds, order, batch_size) ==
    LET n == Len(order)
        nb == (n + batch_size - 1) \div batch_size
    IN  [b \in 1..nb |->
            Collate([k \in 1..(Min(b * batch_size, n) - (b - 1) * batch_size) |->
                        GetItem(ds, order[(b - 1) * batch_size + k])])]

Sequential(ds) == [i \in 1..DatasetLen(ds) |-> i - 1]

DataLoader(ds, batch_size) == BatchesInOrder(ds, Sequential(ds), batch_size)

(***************************************************************************)
(* Metric helpers of train_or_eval_model                                   *)
(***************************************************************************)
\* numpy argmax of one row: the first position (0-based) of the maximum
ArgMax(row) ==
    (CHOOSE i \in 1..Len(row) :
        /\ \A j \in 1..Len(row) : row[j] <= row[i]
        /\ \A j \in 1..(i - 1) : row[j] < row[i]) - 1

\* np.array(flat).reshape(-1, width).argmax(1), or a ValueError
ReshapeArgMax(flat, width) ==
    IF Len(flat) % width # 0
    THEN [raised |-> TRUE]
    ELSE [raised |-> FALSE,
          value  |-> [g \in 1..(Len(flat) \div width) |->
                        ArgMax([j \in 1..width |-> flat[(g - 1) * width + j]])]]

\* round(x, 4) of num/den in units of 1e-4 (ties to even)
Round4(num, den) ==
    LET q == (10000 * num) \div den
        r == (10000 * num) % den
    IN  IF 2 * r > den THEN q + 1
        ELSE IF 2 * r = den THEN q + (q % 2)
        ELSE q

\* round(accuracy_score(y_true, y_pred), 4); sklearn raises a ValueError
\* when the two lengths differ
AccuracyScore(y_true, y_pred) ==
    IF Len(y_true) # Len(y_pred)
    THEN [raised |-> TRUE]
    ELSE [raised |-> FALSE,
          value  |-> Round4(Cardinality({i \in 1..Len(y_true) :
                                            y_true[i] = y_pred[i]}),
                            Len(y_true))]

(***************************************************************************)
(* SpecData: QASCDataset, the evaluation DataLoader and the label reshape  *)
(* applied to one bounded input file.                                      *)
(***************************************************************************)
\* --eval-bs values tried; the loaders are only built with one that passed
\* the assert of __main__
BatchSizeArgs == {8, 12, 16}

EvalBatchSizeOkMod4(eval_batch_size) == eval_batch_size % 4 = 0

EvalBatchSizeUnchecked(eval_batch_size) == TRUE

\* assert eval_batch_size % num_choices == 0
EvalBatchSizeOk(eval_batch_size) == eval_batch_size % num_choices = 0

EvalBatchSizes == {b \in BatchSizeArgs : EvalBatchSizeOk(b)}

NotBuilt == [built |-> FALSE]

\* QASCDataset(f, sep_token, input_format, False)
BuildPlain ==
    /\ dStage = "new"
    /\ dPlain' = QASCDataset(dIn.file, dIn.input_format)
    /\ dStage' = "built"
    /\ UNCHANGED <<dIn, dShuf, dOrder, dBatches, dInst, mainVars>>

\* QASCDataset(f, sep_token, input_format, True): random.shuffle picks p
BuildShuffled ==
    /\ dStage = "built"
    /\ \E p \in Perms(Len(dIn.file)) :
          /\ dOrder' = p
          /\ dShuf' = QASCDataset(Shuffled(dIn.file, p), dIn.input_format)
    /\ dStage' = "shuffled"
    /\ UNCHANGED <<dIn, dPlain, dBatches, dInst, mainVars>>

\* DataLoader(val_dataset, shuffle=False, batch_size=eval_batch_size, ...)
LoadEval ==
    /\ dStage = "shuffled"
    /\ ~dPlain.raised
    /\ dBatches' = DataLoader(dPlain, dIn.eval_bs)
    /\ dStage' = "loaded"
    /\ UNCHANGED <<dIn, dPlain, dShuf, dOrder, dInst, mainVars>>

\* all_labels_cls and instance_labels of the Val / Test branches
InstanceLabels(batches) ==
    ReshapeArgMax(Flatten([b \in 1..Len(batches) |-> batches[b].labels]),
                  num_choices)

EvalLabels ==
    /\ dStage = "loaded"
    /\ dInst' = InstanceLabels(dBatches)
    /\ dStage' = "evaluated"
    /\ UNCHANGED <<dIn, dPlain, dShuf, dOrder, dBatches, mainVars>>

(***************************************************************************)
(* Spec: the script.  The Model class lives in model/modeling_team.py,     *)
(* which is not part of the sources at hand: its forward pass is modelled  *)
(* from its documented interface (a loss, one predicted choice index per   *)
(* group of num_choices texts, one binary prediction per text).  In eval   *)
(* mode the outputs are a function of the parameters and the batch; the    *)
(* parameters are abstracted to a quality level theta that an optimizer    *)
(* step may move anywhere.  Losses, F1 scores and the training metrics are *)
(* floats that only flow into the formatted summary; they are not kept.    *)
(***************************************************************************)
ModelStates == {0, 1, 2}

\* model(batch) -> (loss, p, p_cls)
ModelForward(theta, batch) ==
    LET n == Len(batch.labels)
        lab(i) == batch.labels[i]
        groups == n \div num_choices
        truth(g) == ArgMax([j \in 1..num_choices |->
                               lab((g - 1) * num_choices + j)])
    IN  [p_cls |-> [i \in 1..n |->
                      IF theta = 2 \/ (theta = 1 /\ i % 2 = 1)
                      THEN lab(i) ELSE 1 - lab(i)],
         p     |-> [g \in 1..groups |-> (truth(g) + 2 - theta) % num_choices]]

\* mapper = {0: "A", ..., 7: "H"}
mapper(item) == answers[item + 1]

\* the files of the three splits: n questions of c choices each; line i is
\* keyed with the i-th letter, and the test file's first line has no key
KeyedFile(n, c, firstKey) ==
    [i \in 1..n |-> Rec(i, c, IF i = 1 THEN firstKey ELSE answers[i])]

TrainFiles ==
    {KeyedFile(n, num_choices, "A") : n \in 1..MaxSplitRecords}
        \cup {KeyedFile(1, num_choices, "I")}

ValFiles == {KeyedFile(n, num_choices, "H") : n \in 1..MaxSplitRecords}

TestFiles ==
    {KeyedFile(n, c, NoKey) : n \in 1..MaxSplitRecords, c \in {4, num_choices}}

ArgsSpace ==
    [bs : {8}, eval_bs : BatchSizeArgs, epochs : 0..MaxEpochs,
     shuffle : BOOLEAN, input_format : {"1"}]

\* if split == "Train": (lines 121, 127, 137)
TrainsOnAllButTest(s) == s # "Test"

TrainsOn(s) == s = "Train"

\* the three calls of train_or_eval_model in the loop body, in order
NextSplitTestFirst(s) ==
    IF s = "Train" THEN "Test" ELSE IF s = "Test" THEN "Val" ELSE "none"

NextSplit(s) ==
    IF s = "Train" THEN "Val" ELSE IF s = "Val" THEN "Test" ELSE "none"

\* for e in range(epochs)
LoopContinuesShort(ep, epochs) == ep + 1 < epochs

LoopContinues(ep, epochs) == ep < epochs

\* if val_acc > dev_best_acc
ShouldSave(val_acc, best) == val_acc > best

\* DataLoader(..., shuffle=shuffle): the sampler's order; of the random
\* permutations the identity and the reversal are tried
LoaderOrders(ds, shuffle) ==
    IF shuffle
    THEN {Sequential(ds),
          [i \in 1..DatasetLen(ds) |-> DatasetLen(ds) - i]}
    ELSE {Sequential(ds)}

ArgsEntry == [kind |-> "args", epoch |-> 0, val_acc |-> 0]

Summary(ep, val_acc) == [kind |-> "summary", epoch |-> ep, val_acc |-> val_acc]

SeparatorEntry == [kind |-> "separator", epoch |-> 0, val_acc |-> 0]

EmptyAccum == [preds |-> <<>>, preds_cls |-> <<>>, labels_cls |-> <<>>,
               losses |-> 0]

\* lines 206-218
CheckEvalBatchSize ==
    /\ pc = "start"
    /\ pc' = IF EvalBatchSizeOk(args.eval_bs) THEN "build_model" ELSE "aborted"
    /\ UNCHANGED <<dataVars, args, files, e, dev_best_acc, split, loaders, bi,
                   accum, model, optim, callStart, metrics, saved, out, trace>>

\* lines 220-227
BuildModel ==
    /\ pc = "build_model"
    /\ model' = [built |-> TRUE, training |-> TRUE, theta |-> 0]
    /\ pc' = "setup_outputs"
    /\ UNCHANGED <<dataVars, args, files, e, dev_best_acc, split, loaders, bi,
                   accum, optim, callStart, metrics, saved, out, trace>>

\* lines 229-258
SetupOutputs ==
    /\ pc = "setup_outputs"
    /\ out' = [dirs |-> {"saved/qasc/exp_id", "results/qasc"},
               args_txt |-> <<ArgsEntry>>,
               results_txt |-> Append(out.results_txt, ArgsEntry),
               preds |-> <<>>]
    /\ dev_best_acc' = 0
    /\ pc' = "loop"
    /\ UNCHANGED <<dataVars, args, files, e, split, loaders, bi, accum, model,
                   optim, callStart, metrics, saved, trace>>

\* lines 260-263 and configure_dataloaders
ConfigureDataloaders ==
    /\ pc = "loop"
    /\ LoopContinues(e, args.epochs)
    /\ \E p \in Perms(Len(files.train)) :
          LET train == QASCDataset(Shuffled(files.train, p), args.input_format)
              val   == QASCDataset(files.val, args.input_format)
              test  == QASCDataset(files.test, args.input_format)
          IN  IF train.raised \/ val.raised \/ test.raised
              THEN /\ pc' = "failed"
                   /\ UNCHANGED <<loaders, split>>
              ELSE /\ \E order \in LoaderOrders(train, args.shuffle) :
                         loaders' =
                           [Train |-> BatchesInOrder(train, order, args.bs),
                            Val   |-> DataLoader(val, args.eval_bs),
                            Test  |-> DataLoader(test, args.eval_bs)]
                   /\ split' = "Train"
                   /\ pc' = "call"
    /\ UNCHANGED <<dataVars, args, files, e, dev_best_acc, bi, accum, model,
                   optim, callStart, metrics, saved, out, trace>>

\* train_or_eval_model, lines 119-124
BeginSplit ==
    /\ pc = "call"
    /\ accum' = EmptyAccum
    /\ model' = [model EXCEPT !.training = TrainsOn(split)]
    /\ callStart' = [theta |-> model.theta, optim |-> optim]
    /\ bi' = 0
    /\ trace' = Append(trace, <<split, "begin", e + 1>>)
    /\ pc' = "batch"
    /\ UNCHANGED <<dataVars, args, files, e, dev_best_acc, split, loaders,
                   optim, metrics, saved, out>>

\* lines 126-128
NextBatch ==
    /\ pc = "batch"
    /\ bi < Len(loaders[split])
    /\ optim' = IF TrainsOn(split)
                THEN [optim EXCEPT !.zero_grads = @ + 1]
                ELSE optim
    /\ pc' = "forward"
    /\ UNCHANGED <<dataVars, args, files, e, dev_best_acc, split, loaders, bi,
                   accum, model, callStart, metrics, saved, out, trace>>

\* lines 130-135
Forward ==
    /\ pc = "forward"
    /\ LET batch == loaders[split][bi + 1]
           res == ModelForward(model.theta, batch)
       IN  accum' = [accum EXCEPT
                        !.preds = Append(@, res.p),
                        !.preds_cls = Append(@, res.p_cls),
                        !.labels_cls = Append(@, batch.labels)]
    /\ pc' = IF TrainsOn(split) THEN "backward" ELSE "loss"
    /\ UNCHANGED <<dataVars, args, files, e, dev_best_acc, split, loaders, bi,
                   model, optim, callStart, metrics, saved, out, trace>>

\* line 138
Backward ==
    /\ pc = "backward"
    /\ optim' = [optim EXCEPT !.backwards = @ + 1]
    /\ pc' = "step"
    /\ UNCHANGED <<dataVars, args, files, e, dev_best_acc, split, loaders, bi,
                   accum, model, callStart, metrics, saved, out, trace>>

\* line 139
OptimizerStep ==
    /\ pc = "step"
    /\ optim' = [optim EXCEPT !.steps = @ + 1]
    /\ \E th \in ModelStates : model' = [model EXCEPT !.theta = th]
    /\ pc' = "loss"
    /\ UNCHANGED <<dataVars, args, files, e, dev_best_acc, split, loaders, bi,
                   accum, callStart, metrics, saved, out, trace>>

\* line 141
AppendLoss ==
    /\ pc = "loss"
    /\ accum' = [accum EXCEPT !.losses = @ + 1]
    /\ bi' = bi + 1
    /\ pc' = "batch"
    /\ UNCHANGED <<dataVars, args, files, e, dev_best_acc, split, loaders,
                   model, optim, callStart, metrics, saved, out, trace>>

\* lines 143-180: the metrics of the finished split and the return
FinishSplit ==
    /\ pc = "batch"
    /\ bi >= Len(loaders[split])
    /\ LET all_preds_cls == Flatten(accum.preds_cls)
           all_labels_cls == Flatten(accum.labels_cls)
           instance_preds == Flatten(accum.preds)
           acc == AccuracyScore(all_labels_cls, all_preds_cls)
           instance_labels == ReshapeArgMax(all_labels_cls, num_choices)
           instance_acc == AccuracyScore(instance_labels.value, instance_preds)
           raised ==
               IF split = "Train" THEN acc.raised
               ELSE IF split = "Val"
               THEN acc.raised \/ instance_labels.raised \/ instance_acc.raised
               ELSE instance_labels.raised \/ instance_acc.raised
           returned ==
               IF split = "Train" THEN metrics
               ELSE IF split = "Val"
               THEN [metrics EXCEPT !.val_acc = acc.value,
                                    !.val_ins_acc = instance_acc.value]
               ELSE [metrics EXCEPT
                        !.test_preds = [i \in 1..Len(instance_preds) |->
                                           mapper(instance_preds[i])],
                        !.pred_ins_acc = instance_acc.value]
       IN  IF raised
           THEN /\ pc' = "failed"
                /\ metrics' = [metrics EXCEPT !.computed = @ + 1]
                /\ UNCHANGED <<split, trace>>
           ELSE /\ metrics' = [returned EXCEPT !.computed = @ + 1]
                /\ trace' = Append(trace, <<split, "end", e + 1>>)
                /\ IF NextSplit(split) = "none"
                   THEN pc' = "checkpoint" /\ UNCHANGED split
                   ELSE pc' = "call" /\ split' = NextSplit(split)
    /\ UNCHANGED <<dataVars, args, files, e, dev_best_acc, loaders, bi, accum,
                   model, optim, callStart, saved, out>>

\* lines 269-270; dev_best_acc is not assigned
CheckpointDecision ==
    /\ pc = "checkpoint"
    /\ saved' = IF ShouldSave(metrics.val_acc, dev_best_acc)
                THEN Append(saved, e + 1)
                ELSE saved
    /\ trace' = Append(trace, <<"checkpoint", "decide", e + 1>>)
    /\ pc' = "write_preds"
    /\ UNCHANGED <<dataVars, args, files, e, dev_best_acc, split, loaders, bi,
                   accum, model, optim, callStart, metrics, out>>

\* lines 272-273
WritePreds ==
    /\ pc = "write_preds"
    /\ out' = [out EXCEPT !.preds =
                  Append(@, [epoch |-> e + 1, lines |-> metrics.test_preds])]
    /\ trace' = Append(trace, <<"persist", "preds", e + 1>>)
    /\ pc' = "append_lf"
    /\ UNCHANGED <<dataVars, args, files, e, dev_best_acc, split, loaders, bi,
                   accum, model, optim, callStart, metrics, saved>>

\* lines 275-287
AppendResults ==
    /\ pc = "append_lf"
    /\ out' = [out EXCEPT !.results_txt =
                  Append(@, Summary(e + 1, metrics.val_acc))]
    /\ trace' = Append(trace, <<"persist", "results", e + 1>>)
    /\ pc' = "append_f"
    /\ UNCHANGED <<dataVars, args, files, e, dev_best_acc, split, loaders, bi,
                   accum, model, optim, callStart, metrics, saved>>

\* lines 289-291 and the loop's increment
AppendArgsTxt ==
    /\ pc = "append_f"
    /\ out' = [out EXCEPT !.args_txt =
                  Append(@, Summary(e + 1, metrics.val_acc))]
    /\ trace' = Append(trace, <<"persist", "args", e + 1>>)
    /\ e' = e + 1
    /\ pc' = "loop"
    /\ UNCHANGED <<dataVars, args, files, dev_best_acc, split, loaders, bi,
                   accum, model, optim, callStart, metrics, saved>>

\* lines 293-295
WriteSeparator ==
    /\ pc = "loop"
    /\ ~LoopContinues(e, args.epochs)
    /\ out' = [out EXCEPT !.results_txt = Append(@, SeparatorEntry)]
    /\ pc' = "done"
    /\ UNCHANGED <<dataVars, args, files, e, dev_best_acc, split, loaders, bi,
                   accum, model, optim, callStart, metrics, saved, trace>>

(***************************************************************************)
(* The two specifications.                                                 *)
(***************************************************************************)
NoLoaders == [Train |-> <<>>, Val |-> <<>>, Test |-> <<>>]

NoMetrics == [val_acc |-> 0, val_ins_acc |-> 0, test_preds |-> <<>>,
              pred_ins_acc |-> 0, computed |-> 0]

NoOptim == [steps |-> 0, zero_grads |-> 0, backwards |-> 0]

NoOut == [dirs |-> {}, args_txt |-> <<>>, results_txt |-> <<>>, preds |-> <<>>]

MainRest ==
    /\ e = 0
    /\ dev_best_acc = 0
    /\ split = "none"
    /\ loaders = NoLoaders
    /\ bi = 0
    /\ accum = EmptyAccum
    /\ model = [built |-> FALSE, training |-> FALSE, theta |-> 0]
    /\ optim = NoOptim
    /\ callStart = [theta |-> 0, optim |-> NoOptim]
    /\ metrics = NoMetrics
    /\ saved = <<>>
    /\ out = NoOut
    /\ trace = <<>>

DataRest ==
    /\ dStage = "new"
    /\ dPlain = NotBuilt
    /\ dShuf = NotBuilt
    /\ dOrder = <<>>
    /\ dBatches = <<>>
    /\ dInst = NotBuilt

\* the script, started with any command line and files within the bounds
Init ==
    /\ pc = "start"
    /\ args \in ArgsSpace
    /\ files \in [train : TrainFiles, val : ValFiles, test : TestFiles]
    /\ MainRest
    /\ dIn = [file |-> <<>>, input_format |-> "1", eval_bs |-> num_choices]
    /\ DataRest

Next ==
    \/ CheckEvalBatchSize
    \/ BuildModel
    \/ SetupOutputs
    \/ ConfigureDataloaders
    \/ BeginSplit
    \/ NextBatch
    \/ Forward
    \/ Backward
    \/ OptimizerStep
    \/ AppendLoss
    \/ FinishSplit
    \/ CheckpointDecision
    \/ WritePreds
    \/ AppendResults
    \/ AppendArgsTxt
    \/ WriteSeparator

Spec == Init /\ [][Next]_vars

\* the dataset adapter applied to any file within the bounds
InitData ==
    /\ dIn \in [file : DataFiles, input_format : InputFormats,
                eval_bs : EvalBatchSizes]
    /\ DataRest
    /\ pc = "idle"
    /\ args = [bs |-> num_choices, eval_bs |-> dIn.eval_bs, epochs |-> 0,
               shuffle |-> FALSE, input_format |-> dIn.input_format]
    /\ files = [train |-> <<>>, val |-> <<>>, test |-> <<>>]
    /\ MainRest

NextData ==
    \/ BuildPlain
    \/ BuildShuffled
    \/ LoadEval
    \/ EvalLabels

SpecData == InitData /\ [][NextData]_vars

(***************************************************************************)
(* Vocabulary of the properties.                                           *)
(***************************************************************************)
Alphabet == <<"A", "B", "C", "D", "E", "F", "G", "H", "I">>

\* 1 for "A", 2 for "B", ...
LetterPos(l) == CHOOSE i \in 1..Len(Alphabet) : Alphabet[i] = l

RECURSIVE ChoicesBefore(_, _)
ChoicesBefore(x, j) ==
    IF j <= 1 THEN 0 ELSE ChoicesBefore(x, j - 1) + Len(x[j - 1].choices)

TotalChoices(x) == ChoicesBefore(x, Len(x) + 1)

AllHaveEightChoices(x) == \A j \in 1..Len(x) : Len(x[j].choices) = num_choices

\* the (text, label) pairs __getitem__ returns at the positions of line j of x
RecordPairs(ds, x, j) ==
    [k \in 1..Len(x[j].choices) |-> GetItem(ds, ChoicesBefore(x, j) + k - 1)]

BagOfSeq(q) == [v \in Range(q) |-> Cardinality({i \in 1..Len(q) : q[i] = v})]

BagOfGroups(ds, x) == BagOfSeq([j \in 1..Len(x) |-> RecordPairs(ds, x, j)])

\* pair k of a record: its text joins the stem and choice k, its label is 1
\* exactly at the answer key
PairIsRight(pair, r, k) ==
    /\ pair[1][1] = r.stem
    /\ pair[1][Len(pair[1])] = r.choices[k]
    /\ pair[2] = IF k = LetterPos(r.answerKey) THEN 1 ELSE 0

KeyAmongChoices(r) ==
    r.answerKey # NoKey /\ LetterPos(r.answerKey) <= Len(r.choices)

KeyBeyondLabelSpace(r) ==
    r.answerKey # NoKey /\ LetterPos(r.answerKey) > num_choices

\* the batches in which texts of the record with this stem appear
BatchesOf(batches, stem) ==
    {b \in 1..Len(batches) :
        \E i \in 1..Len(batches[b].content) : batches[b].content[i][1] = stem}

(***************************************************************************)
(* C2.  For every file and format mode, each record whose answerKey is one *)
(* of its first len(choices) letters is exposed by __len__/__getitem__ as  *)
(* exactly len(choices) pairs, in choice order, labelled 1 at the answer   *)
(* key's position and 0 elsewhere.                                         *)
(***************************************************************************)
C2_RecordPairsOneHot ==
    (dStage # "new" /\ ~dPlain.raised) =>
        /\ DatasetLen(dPlain) = TotalChoices(dIn.file)
        /\ \A j \in 1..Len(dIn.file) :
              KeyAmongChoices(dIn.file[j]) =>
                 \A k \in 1..Len(dIn.file[j].choices) :
                    PairIsRight(RecordPairs(dPlain, dIn.file, j)[k],
                                dIn.file[j], k)

(***************************************************************************)
(* C3.  With an eval batch size that passed the configuration check, no    *)
(* record's examples are spread over two batches of the evaluation loader. *)
(* As stated (for every record) it fails for records of fewer than eight   *)
(* choices; it holds for files whose records all have eight.               *)
(***************************************************************************)
C3_NoGroupSpansBatches ==
    dStage \in {"loaded", "evaluated"} =>
        \A j \in 1..Len(dIn.file) :
            Cardinality(BatchesOf(dBatches, dIn.file[j].stem)) <= 1

\* C3 as amended: when every record has exactly eight choices, each
\* record's eight examples lie in one batch of the evaluation loader.
C3_EightChoiceGroupsWhole ==
    (dStage \in {"loaded", "evaluated"} /\ AllHaveEightChoices(dIn.file)) =>
        \A j \in 1..Len(dIn.file) :
            /\ Cardinality(BatchesOf(dBatches, dIn.file[j].stem)) = 1
            /\ \A b \in BatchesOf(dBatches, dIn.file[j].stem) :
                  Cardinality({i \in 1..Len(dBatches[b].content) :
                      dBatches[b].content[i][1] = dIn.file[j].stem})
                    = num_choices

C3_Witness ==
    /\ dStage = "loaded"
    /\ Len(dIn.file) = 2
    /\ AllHaveEightChoices(dIn.file)
    /\ Len(dBatches) = 2

(***************************************************************************)
(* C4.  The dataset built with shuffle=True exposes the same multiset of   *)
(* per-record groups of (text, label) pairs as the one built with          *)
(* shuffle=False, each group contiguous and in choice order.               *)
(***************************************************************************)
C4_ShuffleKeepsGroups ==
    (dStage \in {"shuffled", "loaded", "evaluated"} /\ ~dPlain.raised) =>
        /\ ~dShuf.raised
        /\ BagOfGroups(dShuf, Shuffled(dIn.file, dOrder))
             = BagOfGroups(dPlain, dIn.file)

(***************************************************************************)
(* C6.  Constructing the dataset raises, and leaves no dataset behind,     *)
(* whenever some record's answerKey is a letter beyond the num_choices     *)
(* letters A..H.                                                           *)
(***************************************************************************)
C6_KeyBeyondLabelSpaceRaises ==
    (\E j \in 1..Len(dIn.file) : KeyBeyondLabelSpace(dIn.file[j])) =>
        /\ dStage # "new" => dPlain = [raised |-> TRUE]
        /\ dStage \notin {"new", "built"} => dShuf = [raised |-> TRUE]
        /\ dStage \in {"new", "built", "shuffled"}

C6_Witness ==
    /\ dStage = "shuffled"
    /\ Len(dIn.file) = 2
    /\ dIn.file[1].answerKey = "C"
    /\ dIn.file[2].answerKey = "I"
    /\ dPlain = [raised |-> TRUE]

(***************************************************************************)
(* C7.  For k questions of eight choices each, loaded with an eval batch   *)
(* size that is a multiple of eight, the reshaped arg-max label sequence   *)
(* has length k and its i-th entry is the index of the i-th record's       *)
(* answerKey (A=0 .. H=7), or 0 when the record has none.                  *)
(***************************************************************************)
C7_InstanceLabelsAreKeyIndices ==
    (dStage = "evaluated" /\ AllHaveEightChoices(dIn.file)) =>
        /\ ~dInst.raised
        /\ Len(dInst.value) = Len(dIn.file)
        /\ \A i \in 1..Len(dIn.file) :
              dInst.value[i] =
                 IF dIn.file[i].answerKey = NoKey
                 THEN 0
                 ELSE LetterPos(dIn.file[i].answerKey) - 1

C7_Witness ==
    /\ dStage = "evaluated"
    /\ AllHaveEightChoices(dIn.file)
    /\ Len(dIn.file) = 2
    /\ dIn.file[1].answerKey = "C"
    /\ dIn.file[2].answerKey = NoKey
    /\ dInst.value = <<2, 0>>

(***************************************************************************)
(* Vocabulary of the properties of the script.                             *)
(***************************************************************************)
SummariesOf(log, ep) ==
    {i \in 1..Len(log) : log[i].kind = "summary" /\ log[i].epoch = ep}

SeparatorsOf(log) == {i \in 1..Len(log) : log[i].kind = "separator"}

PredWritesOf(ep) == {i \in 1..Len(out.preds) : out.preds[i].epoch = ep}

\* the validation accuracy of epoch ep: the running epoch's is in hand, an
\* earlier epoch's is in its summary
ValAccOf(ep) ==
    IF ep = e + 1
    THEN metrics.val_acc
    ELSE out.results_txt[CHOOSE i \in SummariesOf(out.results_txt, ep) : TRUE]
            .val_acc

\* the phases of one epoch, in the order the state machine names them
EpochPhases(ep) ==
    << <<"Train", "begin", ep>>, <<"Train", "end", ep>>,
       <<"Val", "begin", ep>>, <<"Val", "end", ep>>,
       <<"Test", "begin", ep>>, <<"Test", "end", ep>>,
       <<"checkpoint", "decide", ep>>,
       <<"persist", "preds", ep>>, <<"persist", "results", ep>>,
       <<"persist", "args", ep>> >>

ExpectedTrace(n) == Flatten([ep \in 1..n |-> EpochPhases(ep)])

IsPrefix(s, t) == Len(s) <= Len(t) /\ \A i \in 1..Len(s) : s[i] = t[i]

InCall == pc \in {"batch", "forward", "backward", "step", "loss"}

\* 1 when the running batch is past the given statement, else 0
Past(positions) == IF pc \in positions THEN 1 ELSE 0

\* the test dataset as one batch, in input order
WholeTest ==
    LET ds == QASCDataset(files.test, args.input_format)
    IN  Collate([i \in 1..DatasetLen(ds) |-> GetItem(ds, i - 1)])

(***************************************************************************)
(* C1.  save_model is called in an epoch only when that epoch's validation *)
(* accuracy strictly exceeds the validation accuracy of every earlier      *)
(* epoch of the run (and 0).                                               *)
(***************************************************************************)
C1_SaveOnlyOnStrictImprovement ==
    \A i \in 1..Len(saved) :
        /\ ValAccOf(saved[i]) > 0
        /\ \A ep \in 1..(saved[i] - 1) : ValAccOf(saved[i]) > ValAccOf(ep)

(***************************************************************************)
(* C5.  With an eval batch size that is not a multiple of 8 the run stops  *)
(* at the configuration check: the model is never built, no directory or   *)
(* file is created, no batch is processed and no metric is computed.       *)
(***************************************************************************)
C5_BadEvalBatchSizeAbortsFirst ==
    args.eval_bs % num_choices # 0 =>
        /\ pc \in {"start", "aborted"}
        /\ ~model.built
        /\ out = NoOut
        /\ loaders = NoLoaders
        /\ accum = EmptyAccum
        /\ metrics.computed = 0
        /\ trace = <<>>

C5_Witness == pc = "aborted" /\ args.eval_bs = 12 /\ args.epochs = 2

(***************************************************************************)
(* C8.  In a completed run of N epochs every epoch has exactly one summary *)
(* in the per-run log and one in the cumulative log and one prediction     *)
(* file with one letter per test question; the separator is written once,  *)
(* last.  As stated the letter count fails for test questions of fewer     *)
(* than eight choices.                                                     *)
(***************************************************************************)
C8_OneSummaryAndOneLetterPerQuestion ==
    pc = "done" =>
        /\ \A ep \in 1..args.epochs :
              /\ Cardinality(SummariesOf(out.args_txt, ep)) = 1
              /\ Cardinality(SummariesOf(out.results_txt, ep)) = 1
              /\ Cardinality(PredWritesOf(ep)) = 1
              /\ \A i \in PredWritesOf(ep) :
                    Len(out.preds[i].lines) = Len(files.test)
        /\ SeparatorsOf(out.results_txt) = {Len(out.results_txt)}

\* C8 as amended: the prediction file of an epoch holds one letter per
\* group of eight test examples, in loader order, which is one letter per
\* test question, in input order, when every test question has exactly
\* eight choices; the rest as stated.
C8_OneSummaryAndOneLetterPerGroup ==
    /\ pc = "done" =>
        /\ \A ep \in 1..args.epochs :
              /\ Cardinality(SummariesOf(out.args_txt, ep)) = 1
              /\ Cardinality(SummariesOf(out.results_txt, ep)) = 1
              /\ Cardinality(PredWritesOf(ep)) = 1
              /\ \A i \in PredWritesOf(ep) :
                    /\ Len(out.preds[i].lines) * num_choices
                          = TotalChoices(files.test)
                    /\ AllHaveEightChoices(files.test) =>
                          Len(out.preds[i].lines) = Len(files.test)
        /\ SeparatorsOf(out.results_txt) = {Len(out.results_txt)}
        /\ Len(out.args_txt) = args.epochs + 1
        /\ Len(out.results_txt) = args.epochs + 2
        /\ Len(out.preds) = args.epochs
    /\ pc # "done" => SeparatorsOf(out.results_txt) = {}
    /\ pc \in {"append_lf", "append_f"} =>
          LET w == out.preds[Len(out.preds)]
              p == ModelForward(model.theta, WholeTest).p
          IN  /\ w.epoch = e + 1
              /\ w.lines = [k \in 1..Len(p) |-> mapper(p[k])]

C8_Witness ==
    /\ pc = "done"
    /\ args.epochs = 2
    /\ Len(files.test) = 2
    /\ AllHaveEightChoices(files.test)
    /\ Len(out.preds[2].lines) = 2

(***************************************************************************)
(* C9.  Every epoch runs Train, Val, Test in this order, each to its end   *)
(* and over its batches in loader order; the checkpoint decision and the   *)
(* persist step follow the Test split and precede the next epoch's Train.  *)
(***************************************************************************)
C9_PhasesInOrder ==
    /\ IsPrefix(trace, ExpectedTrace(args.epochs))
    /\ pc = "done" => trace = ExpectedTrace(args.epochs)
    /\ InCall =>
          /\ trace # <<>>
          /\ trace[Len(trace)] = <<split, "begin", e + 1>>
          /\ Len(accum.labels_cls) = bi + Past({"backward", "step", "loss"})
          /\ \A b \in 1..Len(accum.labels_cls) :
                accum.labels_cls[b] = loaders[split][b].labels
    /\ pc = "call" => Len(trace) % Len(EpochPhases(0)) \in {0, 2, 4}

C9_Witness ==
    /\ pc = "done"
    /\ args.epochs = 2
    /\ Len(trace) = 20

(***************************************************************************)
(* C10.  Only the Train split touches the optimizer: one zero_grad, one    *)
(* backward and one optimizer step per training batch, the step after the  *)
(* batch's forward and backward pass; a Val or Test split leaves the       *)
(* optimizer and the model parameters as they were when it began.          *)
(***************************************************************************)
C10_OptimizerStepsOnlyInTrain ==
    /\ (InCall /\ split # "Train") =>
          /\ optim = callStart.optim
          /\ model.theta = callStart.theta
          /\ ~model.training
    /\ (InCall /\ split = "Train") =>
          /\ model.training
          /\ optim.zero_grads - callStart.optim.zero_grads
                = bi + Past({"forward", "backward", "step", "loss"})
          /\ Len(accum.preds) = bi + Past({"backward", "step", "loss"})
          /\ optim.backwards - callStart.optim.backwards
                = bi + Past({"step", "loss"})
          /\ optim.steps - callStart.optim.steps = bi + Past({"loss"})
    /\ pc \in {"checkpoint", "write_preds", "append_lf", "append_f"} =>
          /\ optim.steps = (e + 1) * Len(loaders.Train)
          /\ optim.backwards = optim.steps
          /\ optim.zero_grads = optim.steps

C10_Witness ==
    /\ split = "Val"
    /\ pc = "loss"
    /\ bi = 1
    /\ optim.steps = 2
    /\ model.theta = 2

====
